---- MODULE Spec2Model ----
(***************************************************************************)
(* Job orchestration of the demo client (src/windows-client/demo_client.py *)
(* DemoDisplay) together with its health monitor and job recovery manager  *)
(* (src/windows-client/error_mitigation.py).                               *)
(*                                                                         *)
(* Threads of the running process that touch the job state:                *)
(*   - command handlers (Flask /command): start_generation, stop_generation*)
(*   - one worker thread per accepted start_generation (run_generation)    *)
(*   - the Tk main loop, which runs the callbacks queued with after_idle   *)
(*     (desktop mode only; in web-only mode the worker calls them itself)  *)
(*   - the health monitor thread (check_system_health every 30 s)          *)
(* Python values: None is NoJob / NoTime / NoImage / NoError below.        *)
(***************************************************************************)
EXTENDS Integers, Sequences, FiniteSets, TLC

\* ---------------------------------------------------------------- bounds
MaxStarts == 2        \* accepted start_generation calls (fresh uuid4 each)
MaxTime == 700        \* the clock stops advancing here
TickSeconds == 301    \* seconds that pass in one clock step
\* The step counts run_generation hands to the backend are 25 (Intel) and 30
\* (Snapdragon) in the source; the backend calls progress_callback once per
\* step.  They are scaled down here, keeping their order, and the "steps"
\* value a caller sends is chosen to lie between them, so that a request at
\* or above the platform's count and a request below it both occur.
IntelSteps == 2
SnapdragonSteps == 3
StepChoices == {2}    \* "steps" values sent with start_generation
MaxSubscribers == 1   \* Socket.IO clients
MaxBroadcasts == 1    \* rounds of monitor_performance that are followed
QueueSize == 4        \* capacity a per-client event buffer is tested against
MaxRecords == 22      \* accepted starts followed when only the history is watched
MaxSimSteps == 3      \* largest "steps" value passed to the emergency generator

\* ------------------------------------------------------ program constants
orphan_timeout == 300
GenerationTimeout == 120
max_jobs == 20

NoJob == 0
NoTime == -1
NoImage == 0
NoError == "none"
AttributeErrorMsg == "NoneType object has no attribute config"
BackendErrorMsg == "backend failure"
OrphanErrorMsg == "Job timeout - marked as failed"

JobIds == 1..MaxStarts

\* the threads that call start_generation: the Flask server thread (/command)
\* and the Tk main thread (the test dialog's "Generate Image" button)
Callers == {"http", "tk"}
NoSteps == 0

Subscribers == 1..MaxSubscribers
TerminalStatus == {"completed", "error", "stopped"}

VARIABLES
    web_only_mode,   \* EMERGENCY_MODE set: no Tk widgets, root is None
    is_snapdragon,   \* platform_info['platform_type'] == 'snapdragon'
    demo_active,     \* DemoDisplay.demo_active
    current_job_id,  \* DemoDisplay.current_job_id
    jobs,            \* DemoDisplay.jobs: job id -> job record
    current_step,    \* DemoDisplay.current_step
    total_steps,     \* DemoDisplay.total_steps
    start_time,      \* DemoDisplay.start_time
    end_time,        \* DemoDisplay.end_time
    ai_generator,    \* DemoDisplay.ai_generator is not None
    workers,         \* worker thread of each accepted start (run_generation)
    tkq,             \* callbacks queued with root.after_idle, in order
    events,          \* events handed to socketio.emit, in order
    health_status,   \* ErrorMitigationSystem.health_status
    next_id,         \* number of uuids drawn so far + 1
    now,             \* time.time()
    starting,        \* start_generation calls between their checks and their writes
    telemetry,       \* DemoDisplay.npu_usage as monitor_performance last set it
    subs,            \* Socket.IO clients: connected, and the events each received
    emergency,       \* a caller's use of emergency_simulator: its prompt and what it got
    simulator,       \* an EmergencyImageGenerator: its asset directory and its generate_image call
    activator,       \* the EmergencyModeActivator and what its last call returned
    monitor_log      \* the logger.error lines of the health checks

vars == <<web_only_mode, is_snapdragon, demo_active, current_job_id, jobs,
          current_step, total_steps, start_time, end_time, ai_generator,
          workers, tkq, events, health_status, next_id, now, starting,
          telemetry, subs, emergency, simulator, activator, monitor_log>>

\* a worker thread that has ended ("done": returned, "dead": an exception
\* escaped run_generation); its locals are gone
Ended(how) == [pc |-> how, k |-> 0, steps |-> 0, err |-> NoError]

\* Python truthiness of a time value (None and 0 are falsy)
Truthy(t) == t /= NoTime /\ t /= 0

HasUI == ~web_only_mode

Emit(ev) == Append(events, ev)

\* a broadcast that puts the event in front of what a client already has
BroadcastPrepend(ev) ==
    [s \in Subscribers |->
        IF subs[s].connected
        THEN [subs[s] EXCEPT !.inbox = <<ev>> \o @]
        ELSE subs[s]]

\* socketio.emit(..., broadcast=True): every connected client gets the event
Broadcast(ev) ==
    [s \in Subscribers |->
        IF subs[s].connected
        THEN [subs[s] EXCEPT !.inbox = Append(@, ev)]
        ELSE subs[s]]

Event(type, job, step, total, image, err) ==
    [type |-> type, job_id |-> job, current_step |-> step,
     total_steps |-> total, image_url |-> image, error |-> err]

NewJob(steps) ==
    [status |-> "active", steps |-> steps, start_time |-> now,
     end_time |-> NoTime, image_url |-> NoImage, metrics |-> FALSE,
     current_step |-> 0, total_steps |-> steps, error |-> NoError,
     elapsed_time |-> NoTime]

\* the process after DemoDisplay.__init__
InitDisplay ==
    /\ web_only_mode \in BOOLEAN
    /\ is_snapdragon \in BOOLEAN
    /\ demo_active = FALSE
    /\ current_job_id = NoJob
    /\ jobs = << >>
    /\ current_step = 0
    /\ total_steps = 30
    /\ start_time = NoTime
    /\ end_time = NoTime
    /\ ai_generator = FALSE
    /\ workers = [w \in JobIds |-> [pc |-> "none", k |-> 0, steps |-> 0, err |-> NoError]]
    /\ tkq = << >>
    /\ events = << >>
    /\ health_status = [has_issues |-> FALSE, has_warnings |-> FALSE, checked |-> FALSE]
    /\ next_id = 1
    /\ now = 1
    /\ starting = [c \in Callers |-> NoSteps]
    /\ telemetry = IF is_snapdragon THEN "idle" ELSE "none"
    /\ subs = [s \in Subscribers |-> [connected |-> FALSE, inbox |-> << >>]]

NoCategory == "none"

\* nobody has used the emergency simulator
NoRequest == [prompt |-> << >>, category |-> NoCategory, generator |-> "none"]

NoAsset == [category |-> NoCategory, variant |-> 0, platform |-> "none"]

\* no generate_image call was made; static/emergency_assets is empty
NoCall ==
    [pc |-> "idle", assets |-> {}, prompt |-> << >>, steps |-> 0, step |-> 0,
     has_callback |-> FALSE, image_path |-> NoAsset, trace |-> << >>]

NoGenerator == "None"

\* EmergencyModeActivator.__init__; no method of it has returned yet
NewActivator ==
    [emergency_active |-> FALSE, activation_reasons |-> << >>,
     original_generator |-> NoGenerator, returned |-> "nothing"]

Init ==
    /\ InitDisplay
    /\ emergency = NoRequest
    /\ simulator = NoCall
    /\ activator = NewActivator
    /\ monitor_log = {}

\* ------------------------------------------------ ErrorMitigationSystem
Conditions == {"model_not_found", "out_of_memory", "concurrent_generation",
               "disk_space", "cors_error", "platform_mismatch",
               "generation_timeout", "acceleration_failure"}

\* conditions whose detection reads the machine, not the job state
EnvConditions == {"model_not_found", "out_of_memory", "disk_space",
                  "platform_mismatch", "acceleration_failure"}

\* the table with acceleration_failure entered as 'critical'
SeverityAccelerationCritical(c) ==
    CASE c = "model_not_found" -> "critical"
      [] c = "out_of_memory" -> "high"
      [] c = "concurrent_generation" -> "medium"
      [] c = "disk_space" -> "high"
      [] c = "cors_error" -> "medium"
      [] c = "platform_mismatch" -> "high"
      [] c = "generation_timeout" -> "medium"
      [] c = "acceleration_failure" -> "critical"

Severity(c) ==
    CASE c = "model_not_found" -> "critical"
      [] c = "out_of_memory" -> "high"
      [] c = "concurrent_generation" -> "medium"
      [] c = "disk_space" -> "high"
      [] c = "cors_error" -> "medium"
      [] c = "platform_mismatch" -> "high"
      [] c = "generation_timeout" -> "medium"
      [] c = "acceleration_failure" -> "medium"

\* 'success' of the result each recovery function returns
RecoverySuccess(c) ==
    CASE c = "model_not_found" -> FALSE
      [] c = "out_of_memory" -> TRUE
      [] c = "concurrent_generation" -> FALSE
      [] c = "disk_space" -> TRUE
      [] c = "cors_error" -> FALSE
      [] c = "platform_mismatch" -> TRUE
      [] c = "generation_timeout" -> TRUE
      [] c = "acceleration_failure" -> FALSE

ActiveJobs(js) == {j \in DOMAIN js : js[j].status = "active"}

detect_concurrent_generation == Cardinality(ActiveJobs(jobs)) > 1

detect_generation_timeout ==
    /\ demo_active
    /\ Truthy(start_time)
    /\ now - start_time > GenerationTimeout

\* the conditions whose detection function returns True, given what the
\* machine reports (env)
Detected(env) ==
    (env \cap {"model_not_found", "out_of_memory", "disk_space", "platform_mismatch"})
    \cup (IF detect_concurrent_generation THEN {"concurrent_generation"} ELSE {})
    \cup (IF detect_generation_timeout THEN {"generation_timeout"} ELSE {})
    \cup (IF ai_generator /\ "acceleration_failure" \in env
          THEN {"acceleration_failure"} ELSE {})

\* the health record check_system_health returns
check_system_health(env) ==
    [issues |-> {c \in Detected(env) : Severity(c) = "critical"},
     warnings |-> {c \in Detected(env) : Severity(c) = "high"}]

HealthStatusAfter(health) ==
    [has_issues |-> health.issues /= {},
     has_warnings |-> health.warnings /= {},
     checked |-> TRUE]

\* --------------------------------------------------- JobRecoveryManager
JobBefore(js, a, b) ==
    \/ js[a].start_time < js[b].start_time
    \/ js[a].start_time = js[b].start_time /\ a < b

RECURSIVE SortedIds(_, _)
SortedIds(js, S) ==
    IF S = {} THEN << >>
    ELSE LET m == CHOOSE a \in S : \A b \in S \ {a} : JobBefore(js, a, b)
         IN <<m>> \o SortedIds(js, S \ {m})

RemoveJob(js, j) == [i \in DOMAIN js \ {j} |-> js[i]]

RECURSIVE CleanupLoop(_, _)
CleanupLoop(js, order) ==
    IF order = << >> THEN js
    ELSE LET j == Head(order) IN
         IF js[j].status \in TerminalStatus
         THEN LET js2 == RemoveJob(js, j) IN
              IF Cardinality(DOMAIN js2) <= max_jobs \div 2
              THEN js2
              ELSE CleanupLoop(js2, Tail(order))
         ELSE CleanupLoop(js, Tail(order))

\* an eviction that drops the oldest records whatever their status
cleanup_old_jobs_any_status(js) ==
    IF Cardinality(DOMAIN js) <= max_jobs THEN js
    ELSE LET order == SortedIds(js, DOMAIN js)
             drop == {order[k] : k \in 1..(Len(order) - max_jobs \div 2)}
         IN [i \in DOMAIN js \ drop |-> js[i]]

cleanup_old_jobs(js) ==
    IF Cardinality(DOMAIN js) <= max_jobs THEN js
    ELSE CleanupLoop(js, SortedIds(js, DOMAIN js))

detect_orphaned_jobs ==
    {j \in DOMAIN jobs : jobs[j].status = "active"
                         /\ now - jobs[j].start_time > orphan_timeout}

\* ------------------------------------------------------------ DemoDisplay
\* start_generation(prompt, steps) as the /command handler calls it: job_id is
\* a fresh uuid4, sync_time is None (no wait before the worker is started).
\* The critical conditions' recovery functions change no state.
StartGeneration(steps, env) ==
    LET health == check_system_health(env)
        rejected == demo_active \/ \E c \in health.issues : ~RecoverySuccess(c)
        job_id == next_id
    IN
    /\ rejected \/ next_id <= MaxStarts
    /\ health_status' = IF demo_active THEN health_status ELSE HealthStatusAfter(health)
    /\ IF rejected
       THEN UNCHANGED <<demo_active, current_job_id, jobs, current_step, total_steps,
                           start_time, end_time, workers, events, next_id, subs>>
       ELSE /\ current_job_id' = job_id
            /\ demo_active' = TRUE
            /\ total_steps' = steps
            /\ current_step' = 0
            /\ start_time' = now
            /\ end_time' = NoTime
            /\ jobs' = [j \in DOMAIN cleanup_old_jobs(jobs) \cup {job_id} |->
                          IF j = job_id THEN NewJob(steps) ELSE jobs[j]]
            /\ events' = Emit(Event("job_started", job_id, 0, steps, NoImage, NoError))
            /\ subs' = Broadcast(Event("job_started", job_id, 0, steps, NoImage, NoError))
            /\ workers' = [workers EXCEPT ![job_id] =
                             [pc |-> "init", k |-> 0, steps |-> 0, err |-> NoError]]
            /\ next_id' = next_id + 1
    /\ UNCHANGED <<monitor_log, simulator, activator, emergency, starting, telemetry, web_only_mode, is_snapdragon, ai_generator, tkq, now>>

\* start_generation called with a "sync_time" that is not a number (the
\* /command handler passes the JSON value on unchanged): everything up to the
\* job_started emit runs, then "sync_time - time.time()" raises TypeError;
\* with_error_recovery logs and re-raises it.  No worker thread is started and
\* no job id is returned (the /command handler answers 500).
StartGenerationSyncError(steps, env) ==
    LET health == check_system_health(env)
        rejected == demo_active \/ \E c \in health.issues : ~RecoverySuccess(c)
        job_id == next_id
    IN
    /\ ~rejected
    /\ next_id <= MaxStarts
    /\ health_status' = HealthStatusAfter(health)
    /\ current_job_id' = job_id
    /\ demo_active' = TRUE
    /\ total_steps' = steps
    /\ current_step' = 0
    /\ start_time' = now
    /\ end_time' = NoTime
    /\ jobs' = [j \in DOMAIN cleanup_old_jobs(jobs) \cup {job_id} |->
                  IF j = job_id THEN NewJob(steps) ELSE jobs[j]]
    /\ events' = Emit(Event("job_started", job_id, 0, steps, NoImage, NoError))
    /\ subs' = Broadcast(Event("job_started", job_id, 0, steps, NoImage, NoError))
    /\ next_id' = next_id + 1
    /\ UNCHANGED <<monitor_log, simulator, activator, emergency, starting, telemetry, web_only_mode, is_snapdragon, ai_generator, workers, tkq, now>>

\* start_generation seen from two threads.  Nothing in it takes a lock, so the
\* thread running it can be pre-empted between the checks (demo_active, the
\* health check) and the writes that follow them.
\* StartCheck: caller c runs the checks; a call that passes them is on its way
\* to the writes with its "steps" argument.
StartCheck(c, steps, env) ==
    LET health == check_system_health(env)
        rejected == demo_active \/ \E x \in health.issues : ~RecoverySuccess(x)
        pending == {d \in Callers : starting[d] /= NoSteps}
    IN
    /\ c = "tk" => HasUI
    /\ starting[c] = NoSteps
    /\ rejected \/ next_id + Cardinality(pending) <= MaxStarts
    /\ health_status' = IF demo_active THEN health_status ELSE HealthStatusAfter(health)
    /\ starting' = IF rejected THEN starting ELSE [starting EXCEPT ![c] = steps]
    /\ UNCHANGED <<monitor_log, simulator, activator, emergency, telemetry, subs, web_only_mode, is_snapdragon, demo_active,
                   current_job_id, jobs, current_step, total_steps, start_time,
                   end_time, ai_generator, workers, tkq, events, next_id, now>>

\* StartCommit: the rest of the call that passed the checks, from
\* cleanup_old_jobs to the start of the worker thread
StartCommit(c) ==
    LET steps == starting[c]
        job_id == next_id
    IN
    /\ starting[c] /= NoSteps
    /\ starting' = [starting EXCEPT ![c] = NoSteps]
    /\ current_job_id' = job_id
    /\ demo_active' = TRUE
    /\ total_steps' = steps
    /\ current_step' = 0
    /\ start_time' = now
    /\ end_time' = NoTime
    /\ jobs' = [j \in DOMAIN cleanup_old_jobs(jobs) \cup {job_id} |->
                  IF j = job_id THEN NewJob(steps) ELSE jobs[j]]
    /\ events' = Emit(Event("job_started", job_id, 0, steps, NoImage, NoError))
    /\ subs' = Broadcast(Event("job_started", job_id, 0, steps, NoImage, NoError))
    /\ workers' = [workers EXCEPT ![job_id] =
                     [pc |-> "init", k |-> 0, steps |-> 0, err |-> NoError]]
    /\ next_id' = next_id + 1
    /\ UNCHANGED <<monitor_log, simulator, activator, emergency, telemetry, web_only_mode, is_snapdragon, ai_generator, tkq,
                   health_status, now>>

\* with no widgets, self.status_label.config raises AttributeError right after
\* demo_active is cleared; the /command handler answers 500
StopGeneration ==
    /\ demo_active' = FALSE
    /\ jobs' = IF HasUI /\ current_job_id /= NoJob /\ current_job_id \in DOMAIN jobs
               THEN [jobs EXCEPT ![current_job_id].status = "stopped",
                                 ![current_job_id].end_time = now]
               ELSE jobs
    /\ UNCHANGED <<monitor_log, simulator, activator, emergency, starting, telemetry, subs, web_only_mode, is_snapdragon, current_job_id, current_step,
                   total_steps, start_time, end_time, ai_generator, workers, tkq,
                   events, health_status, next_id, now>>

\* the step count run_generation picks: ai_generator.model_path is always
\* the default "C:\AIDemo\models", which does not contain "lightning"
BackendSteps == IF is_snapdragon THEN SnapdragonSteps ELSE IntelSteps

\* run_generation up to the backend call: build the generator on first use
\* (its constructor may raise), pick the platform's step count
WorkerInit(w, ok) ==
    /\ workers[w].pc = "init"
    /\ ai_generator => ok
    /\ IF ok
       THEN /\ ai_generator' = TRUE
            /\ total_steps' = BackendSteps
            /\ workers' = [workers EXCEPT ![w].pc = "backend", ![w].k = 0,
                                          ![w].steps = BackendSteps]
       ELSE /\ workers' = [workers EXCEPT ![w].pc = "except", ![w].err = BackendErrorMsg]
            /\ UNCHANGED <<ai_generator, total_steps>>
    /\ UNCHANGED <<monitor_log, simulator, activator, emergency, starting, telemetry, subs, web_only_mode, is_snapdragon, demo_active, current_job_id, jobs,
                   current_step, start_time, end_time, tkq, events, health_status,
                   next_id, now>>

\* the backend finishes one denoising step and calls progress_callback
BackendCallback(w) ==
    LET step == workers[w].k + 1 IN
    /\ workers[w].pc = "backend"
    /\ workers[w].k < workers[w].steps
    /\ workers' = [workers EXCEPT ![w].k = step]
    /\ IF ~demo_active
       THEN UNCHANGED <<current_step, jobs, events, subs>>
       ELSE /\ current_step' = step
            /\ jobs' = IF current_job_id /= NoJob /\ current_job_id \in DOMAIN jobs
                       THEN [jobs EXCEPT ![current_job_id].current_step = step]
                       ELSE jobs
            /\ events' = IF current_job_id /= NoJob
                         THEN Emit(Event("progress", current_job_id, step,
                                         workers[w].steps, NoImage, NoError))
                         ELSE events
            /\ subs' = IF current_job_id /= NoJob
                       THEN Broadcast(Event("progress", current_job_id, step,
                                            workers[w].steps, NoImage, NoError))
                       ELSE subs
    /\ UNCHANGED <<monitor_log, simulator, activator, emergency, starting, telemetry, web_only_mode, is_snapdragon, demo_active, current_job_id,
                   total_steps, start_time, end_time, ai_generator, tkq,
                   health_status, next_id, now>>

\* the backend raises (pipeline not initialized, inference failure)
BackendRaise(w) ==
    /\ workers[w].pc = "backend"
    /\ workers' = [workers EXCEPT ![w].pc = "except", ![w].err = BackendErrorMsg]
    /\ UNCHANGED <<monitor_log, simulator, activator, emergency, starting, telemetry, subs, web_only_mode, is_snapdragon, demo_active, current_job_id, jobs,
                   current_step, total_steps, start_time, end_time, ai_generator,
                   tkq, events, health_status, next_id, now>>

\* the backend returns the image: it is saved under the current job's id and
\* the current job's record gets the url and the metrics
BackendReturn(w) ==
    /\ workers[w].pc = "backend"
    /\ workers[w].k = workers[w].steps
    /\ IF current_job_id = NoJob
       THEN /\ workers' = [workers EXCEPT ![w].pc = "finish"]
            /\ jobs' = jobs
       ELSE IF current_job_id \in DOMAIN jobs
       THEN /\ workers' = [workers EXCEPT ![w].pc = "finish"]
            /\ jobs' = [jobs EXCEPT ![current_job_id].image_url = current_job_id,
                                    ![current_job_id].metrics = TRUE]
       ELSE /\ workers' = [workers EXCEPT ![w].pc = "except", ![w].err = "KeyError"]
            /\ jobs' = jobs
    /\ UNCHANGED <<monitor_log, simulator, activator, emergency, starting, telemetry, subs, web_only_mode, is_snapdragon, demo_active, current_job_id,
                   current_step, total_steps, start_time, end_time, ai_generator,
                   tkq, events, health_status, next_id, now>>

\* elapsed_time as generation_complete computes it
CompleteElapsed(st, et) == IF et /= NoTime /\ st /= NoTime THEN et - st ELSE 0

\* generation_complete, the job record update at its start
CompleteJobRecord(js, et) ==
    IF current_job_id /= NoJob /\ current_job_id \in DOMAIN js
    THEN [js EXCEPT ![current_job_id].status = "completed",
                    ![current_job_id].end_time = et,
                    ![current_job_id].elapsed_time = CompleteElapsed(start_time, et)]
    ELSE js

\* "if self.demo_active": set end_time and run generation_complete, on the Tk
\* loop when there is one, else in this thread, where its first widget call
\* raises AttributeError inside run_generation's try block
WorkerFinish(w) ==
    /\ workers[w].pc = "finish"
    /\ IF ~demo_active
       THEN /\ workers' = [workers EXCEPT ![w] = Ended("done")]
            /\ UNCHANGED <<end_time, tkq, jobs>>
       ELSE /\ end_time' = now
            /\ IF HasUI
               THEN /\ tkq' = Append(tkq, [fn |-> "generation_complete", arg |-> NoError])
                    /\ workers' = [workers EXCEPT ![w] = Ended("done")]
                    /\ jobs' = jobs
               ELSE /\ jobs' = CompleteJobRecord(jobs, now)
                    /\ workers' = [workers EXCEPT ![w].pc = "except",
                                                  ![w].err = AttributeErrorMsg]
                    /\ tkq' = tkq
    /\ UNCHANGED <<monitor_log, simulator, activator, emergency, starting, telemetry, subs, web_only_mode, is_snapdragon, demo_active, current_job_id,
                   current_step, total_steps, start_time, ai_generator, events,
                   health_status, next_id, now>>

\* generation_error, the job record update
ErrorJobRecord(js, err) ==
    IF current_job_id /= NoJob /\ current_job_id \in DOMAIN js
    THEN [js EXCEPT ![current_job_id].status = "error",
                    ![current_job_id].error = err]
    ELSE js

\* run_generation's except block: mark the current job, then generation_error
\* on the Tk loop, or in this thread where it clears demo_active and its first
\* widget call raises out of the thread
WorkerExcept(w) ==
    /\ workers[w].pc = "except"
    /\ jobs' = ErrorJobRecord(jobs, workers[w].err)
    /\ IF HasUI
       THEN /\ tkq' = Append(tkq, [fn |-> "generation_error", arg |-> workers[w].err])
            /\ workers' = [workers EXCEPT ![w] = Ended("done")]
            /\ demo_active' = demo_active
       ELSE /\ demo_active' = FALSE
            /\ workers' = [workers EXCEPT ![w] = Ended("dead")]
            /\ tkq' = tkq
    /\ UNCHANGED <<monitor_log, simulator, activator, emergency, starting, telemetry, subs, web_only_mode, is_snapdragon, current_job_id, current_step,
                   total_steps, start_time, end_time, ai_generator, events,
                   health_status, next_id, now>>

\* the Tk main loop runs the oldest queued callback
TkIdle ==
    LET done == Event("completed", current_job_id, 0, total_steps,
                      IF current_job_id \in DOMAIN jobs
                      THEN jobs[current_job_id].image_url
                      ELSE NoImage, NoError)
        failed == Event("error", current_job_id, 0, 0, NoImage, Head(tkq).arg)
    IN
    /\ tkq /= << >>
    /\ tkq' = Tail(tkq)
    /\ demo_active' = FALSE
    /\ IF Head(tkq).fn = "generation_complete"
       THEN /\ jobs' = CompleteJobRecord(jobs, end_time)
            /\ events' = IF current_job_id /= NoJob THEN Emit(done) ELSE events
            /\ subs' = IF current_job_id /= NoJob THEN Broadcast(done) ELSE subs
       ELSE /\ jobs' = ErrorJobRecord(jobs, Head(tkq).arg)
            /\ events' = IF current_job_id /= NoJob THEN Emit(failed) ELSE events
            /\ subs' = IF current_job_id /= NoJob THEN Broadcast(failed) ELSE subs
    /\ UNCHANGED <<monitor_log, simulator, activator, emergency, starting, telemetry, web_only_mode, is_snapdragon, current_job_id,
                   current_step, total_steps, start_time, end_time, ai_generator,
                   workers, health_status, next_id, now>>

\* one round of the health monitor thread: check_system_health runs the
\* recovery function of the critical detections only (model_not_found, whose
\* recovery returns guidance and changes no state)
HealthMonitorTick(env) ==
    /\ health_status' = HealthStatusAfter(check_system_health(env))
    /\ UNCHANGED <<monitor_log, simulator, activator, emergency, starting, telemetry, subs, web_only_mode, is_snapdragon, demo_active, current_job_id, jobs,
                   current_step, total_steps, start_time, end_time, ai_generator,
                   workers, tkq, events, next_id, now>>

\* JobRecoveryManager.recover_orphaned_jobs
RecoverOrphanedJobs ==
    /\ detect_orphaned_jobs /= {}
    /\ jobs' = [j \in DOMAIN jobs |->
                  IF j \in detect_orphaned_jobs
                  THEN [jobs[j] EXCEPT !.status = "error", !.error = OrphanErrorMsg,
                                       !.end_time = now]
                  ELSE jobs[j]]
    /\ UNCHANGED <<monitor_log, simulator, activator, emergency, starting, telemetry, subs, web_only_mode, is_snapdragon, demo_active, current_job_id,
                   current_step, total_steps, start_time, end_time, ai_generator,
                   workers, tkq, events, health_status, next_id, now>>

\* time passes
Tick ==
    /\ now + TickSeconds <= MaxTime
    /\ now' = now + TickSeconds
    /\ UNCHANGED <<monitor_log, simulator, activator, emergency, starting, telemetry, subs, web_only_mode, is_snapdragon, demo_active, current_job_id, jobs,
                   current_step, total_steps, start_time, end_time, ai_generator,
                   workers, tkq, events, health_status, next_id>>

EnvChoices == {{}, {"model_not_found"}}

Next ==
    \/ \E steps \in StepChoices, env \in EnvChoices : StartGeneration(steps, env)
    \/ StopGeneration
    \/ \E w \in JobIds, ok \in BOOLEAN : WorkerInit(w, ok)
    \/ \E w \in JobIds : BackendCallback(w)
    \/ \E w \in JobIds : BackendRaise(w)
    \/ \E w \in JobIds : BackendReturn(w)
    \/ \E w \in JobIds : WorkerFinish(w)
    \/ \E w \in JobIds : WorkerExcept(w)
    \/ TkIdle
    \/ Tick

\* The process as it runs: command handlers, workers, the Tk loop, the clock.
\* The health monitor thread writes health_status only, which no step of the
\* job life cycle reads; it is part of FairSpec.
Spec == Init /\ [][Next]_vars

\* The process left to itself after jobs were started: no stop command; the
\* internal threads (clock, health monitor, Tk loop, the worker's own code
\* around the backend call) are scheduled fairly, the backend need not return.
FairNext ==
    \/ \E steps \in StepChoices, env \in EnvChoices : StartGeneration(steps, env)
    \/ \E w \in JobIds, ok \in BOOLEAN : WorkerInit(w, ok)
    \/ \E w \in JobIds : BackendCallback(w)
    \/ \E w \in JobIds : BackendRaise(w)
    \/ \E w \in JobIds : BackendReturn(w)
    \/ \E w \in JobIds : WorkerFinish(w)
    \/ \E w \in JobIds : WorkerExcept(w)
    \/ TkIdle
    \/ \E env \in EnvChoices : HealthMonitorTick(env)
    \/ Tick

FairSpec ==
    /\ Init
    /\ [][FairNext]_vars
    /\ WF_vars(Tick)
    /\ WF_vars(\E env \in EnvChoices : HealthMonitorTick(env))
    /\ WF_vars(TkIdle)
    /\ WF_vars(\E w \in JobIds : WorkerFinish(w))
    /\ WF_vars(\E w \in JobIds : WorkerExcept(w))

\* The process left to itself, with a periodic sweep that calls
\* display.job_recovery.recover_orphaned_jobs().
ReaperNext == FairNext \/ RecoverOrphanedJobs

SpecReaper == Init /\ [][ReaperNext]_vars

\* The command handlers and the workers on a machine that reports any mix of
\* missing models, memory or disk pressure, platform mismatch and a generator
\* that fell back to the CPU.  Jobs are started one after the other; nobody
\* sends stop_generation.
HealthEnvChoices ==
    {{}, {"model_not_found"}, {"out_of_memory"}, {"disk_space", "platform_mismatch"},
     {"acceleration_failure"}, {"model_not_found", "out_of_memory"}}

HealthNext ==
    \/ \E steps \in StepChoices, env \in HealthEnvChoices : StartGeneration(steps, env)
    \/ \E w \in JobIds, ok \in BOOLEAN : WorkerInit(w, ok)
    \/ \E w \in JobIds : BackendCallback(w)
    \/ \E w \in JobIds : BackendRaise(w)
    \/ \E w \in JobIds : BackendReturn(w)
    \/ \E w \in JobIds : WorkerFinish(w)
    \/ \E w \in JobIds : WorkerExcept(w)
    \/ TkIdle

HealthSpec == Init /\ [][HealthNext]_vars

\* The command handlers and the workers, with callers that may send a
\* malformed sync_time.
SyncNext ==
    \/ \E steps \in StepChoices, env \in EnvChoices : StartGeneration(steps, env)
    \/ \E steps \in StepChoices, env \in EnvChoices : StartGenerationSyncError(steps, env)
    \/ StopGeneration
    \/ \E w \in JobIds, ok \in BOOLEAN : WorkerInit(w, ok)
    \/ \E w \in JobIds : BackendCallback(w)
    \/ \E w \in JobIds : BackendRaise(w)
    \/ \E w \in JobIds : BackendReturn(w)
    \/ \E w \in JobIds : WorkerFinish(w)
    \/ \E w \in JobIds : WorkerExcept(w)
    \/ TkIdle

SyncSpec == Init /\ [][SyncNext]_vars

\* The process with start_generation called from the Flask thread and from
\* the Tk thread, each call in its two steps.
RaceNext ==
    \/ \E c \in Callers, steps \in StepChoices, env \in EnvChoices : StartCheck(c, steps, env)
    \/ \E c \in Callers : StartCommit(c)
    \/ \E w \in JobIds, ok \in BOOLEAN : WorkerInit(w, ok)
    \/ \E w \in JobIds : BackendCallback(w)
    \/ \E w \in JobIds : BackendRaise(w)
    \/ \E w \in JobIds : BackendReturn(w)
    \/ \E w \in JobIds : WorkerFinish(w)
    \/ \E w \in JobIds : WorkerExcept(w)
    \/ starting["tk"] = NoSteps /\ TkIdle    \* the Tk thread is not inside a start

RaceSpec == Init /\ [][RaceNext]_vars

\* ------------------------------------------------------------ get_status
\* get_status(job_id) for a job in the history
GetStatus(j) ==
    [job_id |-> j,
     status |-> jobs[j].status,
     current_step |-> jobs[j].current_step,
     total_steps |-> jobs[j].total_steps,
     elapsed_time |-> IF Truthy(jobs[j].start_time)
                      THEN IF Truthy(jobs[j].end_time)
                           THEN jobs[j].end_time - jobs[j].start_time
                           ELSE now - jobs[j].start_time
                      ELSE 0,
     image_url |-> jobs[j].image_url,
     metrics |-> jobs[j].metrics,
     error |-> jobs[j].error]

\* ------------------------------------------------- status and Socket.IO
\* ErrorMitigationSystem.get_health_summary: the result of the last health
\* check and three detections run now
get_health_summary(env) ==
    [healthy |-> ~health_status.has_issues,
     warnings |-> health_status.has_warnings,
     checked |-> health_status.checked,
     memory_ok |-> "out_of_memory" \notin env,
     disk_ok |-> "disk_space" \notin env,
     models_ok |-> "model_not_found" \notin env]

\* get_status() without a job id with the status reported as 'idle' always
GlobalStatusIdle(env) ==
    [status |-> "idle",
     model_loaded |-> ai_generator,
     current_step |-> current_step,
     total_steps |-> total_steps,
     elapsed_time |-> IF Truthy(start_time)
                      THEN (IF Truthy(end_time) THEN end_time - start_time
                                                ELSE now - start_time)
                      ELSE 0,
     completed |-> ~demo_active /\ end_time /= NoTime,
     telemetry |-> telemetry,
     image_url |-> IF current_job_id /= NoJob /\ current_job_id \in DOMAIN jobs
                   THEN jobs[current_job_id].image_url ELSE NoImage,
     current_job_id |-> current_job_id,
     health |-> get_health_summary(env)]

\* get_status() without a job id: the global view
GlobalStatus(env) ==
    [status |-> IF demo_active THEN "active" ELSE "idle",
     model_loaded |-> ai_generator,
     current_step |-> current_step,
     total_steps |-> total_steps,
     elapsed_time |-> IF Truthy(start_time)
                      THEN (IF Truthy(end_time) THEN end_time - start_time
                                                ELSE now - start_time)
                      ELSE 0,
     completed |-> ~demo_active /\ end_time /= NoTime,
     telemetry |-> telemetry,
     image_url |-> IF current_job_id /= NoJob /\ current_job_id \in DOMAIN jobs
                   THEN jobs[current_job_id].image_url ELSE NoImage,
     current_job_id |-> current_job_id,
     health |-> get_health_summary(env)]

StatusEvent(payload) == [type |-> "status", job_id |-> NoJob, payload |-> payload]

TelemetryEvent(npu) == [type |-> "telemetry", job_id |-> NoJob, payload |-> npu]

\* handle_connect: the new client is sent one status snapshot
Connect(s, env) ==
    /\ ~subs[s].connected
    /\ subs' = [subs EXCEPT ![s] = [connected |-> TRUE,
                                    inbox |-> <<StatusEvent(GlobalStatus(env))>>]]
    /\ UNCHANGED <<monitor_log, simulator, activator, emergency, starting, telemetry, web_only_mode, is_snapdragon, demo_active,
                   current_job_id, jobs, current_step, total_steps, start_time,
                   end_time, ai_generator, workers, tkq, events, health_status,
                   next_id, now>>

\* the client goes away (handle_disconnect only logs)
Disconnect(s) ==
    /\ subs[s].connected
    /\ subs' = [subs EXCEPT ![s] = [connected |-> FALSE, inbox |-> << >>]]
    /\ UNCHANGED <<monitor_log, simulator, activator, emergency, starting, telemetry, web_only_mode, is_snapdragon, demo_active,
                   current_job_id, jobs, current_step, total_steps, start_time,
                   end_time, ai_generator, workers, tkq, events, health_status,
                   next_id, now>>

\* one round of monitor_performance: sample the metrics, then broadcast a
\* telemetry event and a status snapshot (of the current job if there is one)
MonitorPerformance(env) ==
    LET npu == IF is_snapdragon THEN (IF demo_active THEN "busy" ELSE "idle") ELSE "none"
        tel == TelemetryEvent(npu)
        payload == IF current_job_id /= NoJob /\ current_job_id \in DOMAIN jobs
                   THEN GetStatus(current_job_id)
                   ELSE [GlobalStatus(env) EXCEPT !.telemetry = npu]
        st == StatusEvent(payload)
    IN
    /\ Cardinality({i \in DOMAIN events : events[i].type = "status"}) < MaxBroadcasts
    /\ telemetry' = npu
    /\ events' = events \o <<tel, st>>
    /\ subs' = [s \in Subscribers |->
                  IF subs[s].connected
                  THEN [subs[s] EXCEPT !.inbox = @ \o <<tel, st>>]
                  ELSE subs[s]]
    /\ UNCHANGED <<monitor_log, simulator, activator, emergency, starting, web_only_mode, is_snapdragon, demo_active,
                   current_job_id, jobs, current_step, total_steps, start_time,
                   end_time, ai_generator, workers, tkq, health_status, next_id, now>>

\* The server with Socket.IO clients coming and going while jobs run.
SocketNext ==
    \/ \E steps \in StepChoices, env \in EnvChoices : StartGeneration(steps, env)
    \/ \E w \in JobIds, ok \in BOOLEAN : WorkerInit(w, ok)
    \/ \E w \in JobIds : BackendCallback(w)
    \/ \E w \in JobIds : BackendRaise(w)
    \/ \E w \in JobIds : BackendReturn(w)
    \/ \E w \in JobIds : WorkerFinish(w)
    \/ \E w \in JobIds : WorkerExcept(w)
    \/ TkIdle
    \/ \E s \in Subscribers, env \in EnvChoices : Connect(s, env)
    \/ \E s \in Subscribers : Disconnect(s)
    \/ \E env \in EnvChoices : MonitorPerformance(env)

SocketSpec == Init /\ [][SocketNext]_vars

\* ---------------------------------------------------------------- /health
\* a /health handler that answers 200 whatever the summary says
health_check_always_ok(env) ==
    [body |-> get_health_summary(env), status_code |-> 200]

\* NetworkServer's GET /health (demo_client.py): the summary and 200 or 503
health_check(env) ==
    [body |-> get_health_summary(env),
     status_code |-> IF get_health_summary(env).healthy THEN 200 ELSE 503]

\* EmergencyWebServer's GET /health (emergency_web_server.py): the summary of
\* its own ErrorMitigationSystem, "Always return 200 in emergency mode"
emergency_health_check(env) ==
    [body |-> get_health_summary(env), status_code |-> 200]

\* ------------------------------------------------- the transport is down
\* Every socketio.emit of the publishers sits in "try: ... except Exception
\* as emit_error: logger.debug(...)".  The actions below are the publishers'
\* steps when the emit raises: the handler's other writes, and no event.

\* start_generation, accepted, with the job_started emit raising
StartGenerationEmitFails(steps, env) ==
    LET health == check_system_health(env)
        rejected == demo_active \/ \E c \in health.issues : ~RecoverySuccess(c)
        job_id == next_id
    IN
    /\ ~rejected
    /\ next_id <= MaxStarts
    /\ health_status' = HealthStatusAfter(health)
    /\ current_job_id' = job_id
    /\ demo_active' = TRUE
    /\ total_steps' = steps
    /\ current_step' = 0
    /\ start_time' = now
    /\ end_time' = NoTime
    /\ jobs' = [j \in DOMAIN cleanup_old_jobs(jobs) \cup {job_id} |->
                  IF j = job_id THEN NewJob(steps) ELSE jobs[j]]
    /\ workers' = [workers EXCEPT ![job_id] =
                     [pc |-> "init", k |-> 0, steps |-> 0, err |-> NoError]]
    /\ next_id' = next_id + 1
    /\ UNCHANGED <<monitor_log, simulator, activator, emergency, events, subs, starting, telemetry, web_only_mode, is_snapdragon,
                   ai_generator, tkq, now>>

\* progress_callback whose emit raises and is not caught: the exception
\* leaves the callback and the backend call, into run_generation's except block
BackendCallbackEmitEscapes(w) ==
    LET step == workers[w].k + 1 IN
    /\ workers[w].pc = "backend"
    /\ workers[w].k < workers[w].steps
    /\ demo_active
    /\ current_job_id /= NoJob
    /\ workers' = [workers EXCEPT ![w].pc = "except", ![w].err = "emit failure"]
    /\ current_step' = step
    /\ jobs' = IF current_job_id \in DOMAIN jobs
               THEN [jobs EXCEPT ![current_job_id].current_step = step]
               ELSE jobs
    /\ UNCHANGED <<monitor_log, simulator, activator, emergency, events, subs, starting, telemetry, web_only_mode, is_snapdragon,
                   demo_active, current_job_id, total_steps, start_time, end_time,
                   ai_generator, tkq, health_status, next_id, now>>

\* progress_callback with the progress emit raising
BackendCallbackEmitFails(w) ==
    LET step == workers[w].k + 1 IN
    /\ workers[w].pc = "backend"
    /\ workers[w].k < workers[w].steps
    /\ demo_active
    /\ current_job_id /= NoJob
    /\ workers' = [workers EXCEPT ![w].k = step]
    /\ current_step' = step
    /\ jobs' = IF current_job_id \in DOMAIN jobs
               THEN [jobs EXCEPT ![current_job_id].current_step = step]
               ELSE jobs
    /\ UNCHANGED <<monitor_log, simulator, activator, emergency, events, subs, starting, telemetry, web_only_mode, is_snapdragon,
                   demo_active, current_job_id, total_steps, start_time, end_time,
                   ai_generator, tkq, health_status, next_id, now>>

\* generation_complete / generation_error on the Tk loop with the completed /
\* error emit raising
TkIdleEmitFails ==
    /\ tkq /= << >>
    /\ current_job_id /= NoJob
    /\ tkq' = Tail(tkq)
    /\ demo_active' = FALSE
    /\ jobs' = IF Head(tkq).fn = "generation_complete"
               THEN CompleteJobRecord(jobs, end_time)
               ELSE ErrorJobRecord(jobs, Head(tkq).arg)
    /\ UNCHANGED <<monitor_log, simulator, activator, emergency, events, subs, starting, telemetry, web_only_mode, is_snapdragon,
                   current_job_id, current_step, total_steps, start_time, end_time,
                   ai_generator, workers, health_status, next_id, now>>

\* one round of monitor_performance with the telemetry emit raising: the
\* status emit of the same try block is skipped, the loop sleeps and goes on
MonitorPerformanceEmitFails ==
    /\ telemetry' = IF is_snapdragon THEN (IF demo_active THEN "busy" ELSE "idle")
                    ELSE "none"
    /\ UNCHANGED <<monitor_log, simulator, activator, emergency, events, subs, starting, web_only_mode, is_snapdragon, demo_active,
                   current_job_id, jobs, current_step, total_steps, start_time,
                   end_time, ai_generator, workers, tkq, health_status, next_id, now>>

\* The process while no Socket.IO emit succeeds.
TransportDownNext ==
    \/ \E steps \in StepChoices, env \in EnvChoices : StartGenerationEmitFails(steps, env)
    \/ \E steps \in StepChoices, env \in EnvChoices : demo_active /\ StartGeneration(steps, env)
    \/ \E w \in JobIds, ok \in BOOLEAN : WorkerInit(w, ok)
    \/ \E w \in JobIds : BackendCallbackEmitFails(w)
    \/ \E w \in JobIds : BackendRaise(w)
    \/ \E w \in JobIds : BackendReturn(w)
    \/ \E w \in JobIds : WorkerFinish(w)
    \/ \E w \in JobIds : WorkerExcept(w)
    \/ TkIdleEmitFails
    \/ MonitorPerformanceEmitFails

TransportDownSpec == Init /\ [][TransportDownNext]_vars

\* ------------------------------------------------------ a long session
\* start_generation as in StartGeneration, for a session of up to MaxRecords
\* accepted starts; the worker threads it starts are not followed further.
StartGenerationLong(steps, env) ==
    LET health == check_system_health(env)
        rejected == demo_active \/ \E c \in health.issues : ~RecoverySuccess(c)
        job_id == next_id
        ev == Event("job_started", job_id, 0, steps, NoImage, NoError)
    IN
    /\ rejected \/ next_id <= MaxRecords
    /\ health_status' = IF demo_active THEN health_status ELSE HealthStatusAfter(health)
    /\ IF rejected
       THEN UNCHANGED <<demo_active, current_job_id, jobs, current_step, total_steps,
                           start_time, end_time, workers, events, next_id, subs>>
       ELSE /\ current_job_id' = job_id
            /\ demo_active' = TRUE
            /\ total_steps' = steps
            /\ current_step' = 0
            /\ start_time' = now
            /\ end_time' = NoTime
            /\ jobs' = [j \in DOMAIN cleanup_old_jobs(jobs) \cup {job_id} |->
                          IF j = job_id THEN NewJob(steps) ELSE jobs[j]]
            /\ events' = Emit(ev)
            /\ subs' = Broadcast(ev)
            /\ workers' = [w \in DOMAIN workers \cup {job_id} |->
                             IF w = job_id
                             THEN [pc |-> "init", k |-> 0, steps |-> 0, err |-> NoError]
                             ELSE workers[w]]
            /\ next_id' = next_id + 1
    /\ UNCHANGED <<monitor_log, simulator, activator, emergency, starting, telemetry, web_only_mode, is_snapdragon, ai_generator, tkq, now>>

\* An operator who starts a job and stops it, again and again.
HistoryNext ==
    \/ \E steps \in StepChoices, env \in EnvChoices : StartGenerationLong(steps, env)
    \/ StopGeneration
    \/ Tick

HistorySpec == Init /\ [][HistoryNext]_vars

\* A long session of the web-only server (EMERGENCY_MODE set) on a healthy
\* machine whose generator cannot be built: every job fails in its worker.
\* One of the first callers sends a malformed sync_time, so that its job has
\* no worker, and then a stop command.
EvictionInit == Init /\ web_only_mode

EvictionNext ==
    \/ \E steps \in StepChoices : StartGenerationLong(steps, {})
    \/ \E steps \in StepChoices : StartGenerationSyncError(steps, {})
    \/ demo_active /\ workers[current_job_id].pc = "none" /\ StopGeneration
    \/ \E w \in DOMAIN workers : WorkerInit(w, FALSE)
    \/ \E w \in DOMAIN workers : WorkerExcept(w)
    \/ Tick

EvictionSpec == EvictionInit /\ [][EvictionNext]_vars

\* --------------------------------------------------- emergency_simulator
\* Strings are sequences of characters here, so that str.lower() and the
\* substring test "keyword in prompt_lower" are computed as Python computes
\* them.
UpperLetters ==
    <<"A", "B", "C", "D", "E", "F", "G", "H", "I", "J", "K", "L", "M",
      "N", "O", "P", "Q", "R", "S", "T", "U", "V", "W", "X", "Y", "Z">>

LowerLetters ==
    <<"a", "b", "c", "d", "e", "f", "g", "h", "i", "j", "k", "l", "m",
      "n", "o", "p", "q", "r", "s", "t", "u", "v", "w", "x", "y", "z">>

lower_char(c) ==
    IF \E i \in DOMAIN UpperLetters : UpperLetters[i] = c
    THEN LowerLetters[CHOOSE i \in DOMAIN UpperLetters : UpperLetters[i] = c]
    ELSE c

\* prompt.lower()
str_lower(prompt) == [i \in DOMAIN prompt |-> lower_char(prompt[i])]

\* "keyword in text" for two strings
Contains(keyword, text) ==
    \E i \in 0..(Len(text) - Len(keyword)) :
        SubSeq(text, i + 1, i + Len(keyword)) = keyword

\* EmergencyImageGenerator.prompt_categories, in the dict's insertion order
prompt_categories ==
    <<
      [category |-> "landscape",
       keywords |-> <<
          <<"l", "a", "n", "d", "s", "c", "a", "p", "e">>,
          <<"m", "o", "u", "n", "t", "a", "i", "n">>, <<"o", "c", "e", "a", "n">>,
          <<"f", "o", "r", "e", "s", "t">>, <<"n", "a", "t", "u", "r", "e">>,
          <<"s", "c", "e", "n", "i", "c">>, <<"v", "a", "l", "l", "e", "y">>,
          <<"s", "u", "n", "s", "e", "t">>, <<"s", "u", "n", "r", "i", "s", "e">>
       >>],
      [category |-> "portrait",
       keywords |-> <<
          <<"p", "e", "r", "s", "o", "n">>, <<"f", "a", "c", "e">>, <<"h", "u", "m", "a", "n">>,
          <<"p", "o", "r", "t", "r", "a", "i", "t">>,
          <<"c", "h", "a", "r", "a", "c", "t", "e", "r">>, <<"m", "a", "n">>,
          <<"w", "o", "m", "a", "n">>, <<"c", "h", "i", "l", "d">>
       >>],
      [category |-> "abstract",
       keywords |-> <<
          <<"a", "b", "s", "t", "r", "a", "c", "t">>, <<"p", "a", "t", "t", "e", "r", "n">>,
          <<"g", "e", "o", "m", "e", "t", "r", "i", "c">>,
          <<"c", "o", "l", "o", "r", "f", "u", "l">>, <<"a", "r", "t", "i", "s", "t", "i", "c">>,
          <<"m", "o", "d", "e", "r", "n">>
       >>],
      [category |-> "architecture",
       keywords |-> <<
          <<"b", "u", "i", "l", "d", "i", "n", "g">>, <<"h", "o", "u", "s", "e">>,
          <<"c", "i", "t", "y">>, <<"u", "r", "b", "a", "n">>,
          <<"s", "t", "r", "u", "c", "t", "u", "r", "e">>,
          <<"a", "r", "c", "h", "i", "t", "e", "c", "t", "u", "r", "e">>,
          <<"c", "i", "t", "y", "s", "c", "a", "p", "e">>
       >>],
      [category |-> "fantasy",
       keywords |-> <<
          <<"d", "r", "a", "g", "o", "n">>, <<"m", "a", "g", "i", "c">>,
          <<"f", "a", "n", "t", "a", "s", "y">>, <<"m", "y", "t", "h", "i", "c", "a", "l">>,
          <<"u", "n", "i", "c", "o", "r", "n">>, <<"c", "a", "s", "t", "l", "e">>,
          <<"f", "a", "i", "r", "y">>
       >>],
      [category |-> "technology",
       keywords |-> <<
          <<"r", "o", "b", "o", "t">>, <<"f", "u", "t", "u", "r", "i", "s", "t", "i", "c">>,
          <<"s", "c", "i", "-", "f", "i">>, <<"c", "y", "b", "e", "r", "p", "u", "n", "k">>,
          <<"t", "e", "c", "h">>, <<"c", "o", "m", "p", "u", "t", "e", "r">>, <<"a", "i">>
       >>],
      [category |-> "animals",
       keywords |-> <<
          <<"c", "a", "t">>, <<"d", "o", "g">>, <<"b", "i", "r", "d">>,
          <<"a", "n", "i", "m", "a", "l">>, <<"w", "i", "l", "d", "l", "i", "f", "e">>,
          <<"p", "e", "t">>, <<"h", "o", "r", "s", "e">>, <<"e", "l", "e", "p", "h", "a", "n", "t">>
       >>],
      [category |-> "vehicles",
       keywords |-> <<
          <<"c", "a", "r">>, <<"t", "r", "u", "c", "k">>, <<"p", "l", "a", "n", "e">>,
          <<"s", "h", "i", "p">>, <<"v", "e", "h", "i", "c", "l", "e">>,
          <<"m", "o", "t", "o", "r", "c", "y", "c", "l", "e">>, <<"t", "r", "a", "i", "n">>
       >>],
      [category |-> "food",
       keywords |-> <<
          <<"f", "o", "o", "d">>, <<"m", "e", "a", "l">>, <<"c", "o", "o", "k", "i", "n", "g">>,
          <<"r", "e", "s", "t", "a", "u", "r", "a", "n", "t">>,
          <<"k", "i", "t", "c", "h", "e", "n">>, <<"d", "e", "l", "i", "c", "i", "o", "u", "s">>
       >>],
      [category |-> "space",
       keywords |-> <<
          <<"s", "p", "a", "c", "e">>, <<"p", "l", "a", "n", "e", "t">>, <<"s", "t", "a", "r">>,
          <<"g", "a", "l", "a", "x", "y">>, <<"a", "s", "t", "r", "o", "n", "a", "u", "t">>,
          <<"c", "o", "s", "m", "o", "s">>, <<"u", "n", "i", "v", "e", "r", "s", "e">>
       >>]
    >>

\* sum(1 for keyword in keywords if keyword in prompt_lower) of the i-th category
Score(i, prompt_lower) ==
    Cardinality({k \in DOMAIN prompt_categories[i].keywords :
                    Contains(prompt_categories[i].keywords[k], prompt_lower)})

\* a categorization that returns the first category with any matching keyword
categorize_prompt_first_match(prompt) ==
    LET prompt_lower == str_lower(prompt)
        category_scores == {i \in DOMAIN prompt_categories : Score(i, prompt_lower) > 0}
    IN IF category_scores = {} THEN "abstract"
       ELSE prompt_categories[CHOOSE i \in category_scores :
                                 \A j \in category_scores : i <= j].category

\* categorize_prompt: max() over the categories that scored, which returns the
\* first of the items with the highest score
categorize_prompt(prompt) ==
    LET prompt_lower == str_lower(prompt)
        category_scores == {i \in DOMAIN prompt_categories : Score(i, prompt_lower) > 0}
    IN IF category_scores = {} THEN "abstract"
       ELSE prompt_categories[CHOOSE i \in category_scores :
                                 \A j \in category_scores :
                                     \/ Score(j, prompt_lower) < Score(i, prompt_lower)
                                     \/ /\ Score(j, prompt_lower) = Score(i, prompt_lower)
                                        /\ i <= j].category

PromptDragon ==
    <<"a", " ", "d", "r", "a", "g", "o", "n", " ", "o", "v", "e", "r", " ", "a", " ", "c", "a",
      "s", "t", "l", "e">>

PromptSpreadsheet ==
    <<"q", "u", "a", "r", "t", "e", "r", "l", "y", " ", "r", "e", "v", "e", "n", "u", "e", " ",
      "s", "p", "r", "e", "a", "d", "s", "h", "e", "e", "t">>

\* prompts callers send: the two above, the empty prompt, upper case, two
\* categories with different scores, a tie, a keyword inside another word
Prompts ==
    {PromptDragon, PromptSpreadsheet, << >>,
     <<"A", " ", "C", "A", "T">>,
     <<"m", "o", "u", "n", "t", "a", "i", "n", " ", "d", "r", "a", "g", "o", "n", " ", "c", "a", "s", "t", "l", "e">>,
     <<"c", "a", "t", " ", "a", "n", "d", " ", "d", "r", "a", "g", "o", "n">>,
     <<"r", "a", "i", "n">>,
     <<"S", "u", "n", "s", "e", "t", " ", "o", "v", "e", "r", " ", "t", "h", "e", " ", "o", "c", "e", "a", "n">>,
     <<"a", " ", "r", "o", "b", "o", "t", " ", "c", "h", "e", "f", " ", "c", "o", "o", "k", "i", "n", "g", " ", "a", " ", "m", "e", "a", "l">>,
     <<"m", "o", "d", "e", "r", "n", " ", "c", "i", "t", "y">>}

displayVars == <<web_only_mode, is_snapdragon, demo_active, current_job_id, jobs,
                 current_step, total_steps, start_time, end_time, ai_generator,
                 workers, tkq, events, health_status, next_id, now, starting,
                 telemetry, subs>>

\* a caller asks for the category of its prompt
Categorize ==
    /\ emergency.category = NoCategory
    /\ emergency' = [emergency EXCEPT !.category = categorize_prompt(emergency.prompt)]
    /\ UNCHANGED <<displayVars, simulator, activator, monitor_log>>

\* create_emergency_generator(platform_info), i.e. EmergencyImageGenerator's
\* constructor: it calls ensure_emergency_assets(), whose first statement reads
\* self.prompt_categories, two statements before __init__ assigns it:
\* AttributeError, for every platform_info
CreateEmergencyGenerator ==
    /\ emergency.generator = "none"
    /\ emergency' = [emergency EXCEPT !.generator = "AttributeError"]
    /\ UNCHANGED <<displayVars, simulator, activator, monitor_log>>

EmergencyInit ==
    /\ InitDisplay
    /\ simulator = NoCall
    /\ activator = NewActivator
    /\ monitor_log = {}
    /\ emergency \in {[prompt |-> p, category |-> NoCategory, generator |-> "none"] :
                        p \in Prompts}

EmergencyNext == Categorize \/ CreateEmergencyGenerator

\* Callers of the emergency simulator, one prompt each.
EmergencySpec == EmergencyInit /\ [][EmergencyNext]_vars

\* ------------------------------- EmergencyImageGenerator.generate_image
\* The methods are taken on an instance with the attributes __init__ assigns
\* (the constructor itself is CreateEmergencyGenerator above).  An asset file
\* emergency_{category}_{variant}_{platform}.png is a record of its three
\* name parts.
Variants == 0..2

CategoryNames == {prompt_categories[i].category : i \in DOMAIN prompt_categories}

Asset(category, variant, platform) ==
    [category |-> category, variant |-> variant, platform |-> platform]

\* the files ensure_emergency_assets writes for one platform
PlatformAssets(platform) ==
    {Asset(c, v, platform) : c \in CategoryNames, v \in Variants}

\* platform_info.get('platform_type', 'generic') of the running machine
platform_type == IF is_snapdragon THEN "snapdragon" ELSE "intel"

default_steps_snapdragon == 4
default_steps_intel == 25

default_steps == IF is_snapdragon THEN default_steps_snapdragon ELSE default_steps_intel

\* the directory after select_emergency_image's scan: when it finds no file
\* of the platform it calls ensure_emergency_assets, which writes the
\* platform's files (create_placeholder_image logs and swallows a failed write)
AssetsAfterScan(assets, platform, writable) ==
    IF {a \in assets : a.platform = platform} = {} /\ writable
    THEN assets \cup PlatformAssets(platform)
    ELSE assets

\* select_emergency_image: the paths random.choice can return, all files of
\* the platform whatever their category; the prompt is only logged.  With no
\* file at all, the path of the abstract fallback.
select_emergency_image(assets, platform, prompt) ==
    LET available == {a \in assets : a.platform = platform}
    IN IF available /= {} THEN available
       ELSE {Asset("abstract", 0, platform)}

TraceEntry(op, step, total) == [op |-> op, step |-> step, total |-> total]

\* generate_image up to its loop: "steps or self.default_steps", then the
\* selection of the asset
GenerateImage(prompt, steps, has_callback, writable) ==
    LET scanned == AssetsAfterScan(simulator.assets, platform_type, writable) IN
    /\ simulator.pc = "idle"
    /\ \E path \in select_emergency_image(scanned, platform_type, prompt) :
          simulator' = [simulator EXCEPT
                           !.pc = "loop", !.assets = scanned, !.prompt = prompt,
                           !.steps = IF steps = NoSteps THEN default_steps ELSE steps,
                           !.step = 0, !.has_callback = has_callback,
                           !.image_path = path, !.trace = << >>]
    /\ UNCHANGED <<displayVars, emergency, activator, monitor_log>>

\* one pass of "for step in range(steps)": progress_callback(progress,
\* step + 1, steps) if a callback was given, then time.sleep(step_timings[step])
GenerationStep ==
    LET called == TraceEntry("callback", simulator.step + 1, simulator.steps)
        slept == TraceEntry("sleep", simulator.step + 1, simulator.steps)
    IN
    /\ simulator.pc = "loop"
    /\ simulator.step < simulator.steps
    /\ simulator' = [simulator EXCEPT
                        !.step = @ + 1,
                        !.trace = IF simulator.has_callback
                                  THEN @ \o <<called, slept>>
                                  ELSE Append(@, slept)]
    /\ UNCHANGED <<displayVars, emergency, activator, monitor_log>>

\* after the loop: the image is loaded (or drawn when the file is missing)
\* and returned with the metrics
GenerateImageReturn ==
    /\ simulator.pc = "loop"
    /\ simulator.step = simulator.steps
    /\ simulator' = [simulator EXCEPT !.pc = "returned"]
    /\ UNCHANGED <<displayVars, emergency, activator, monitor_log>>

\* the files create_emergency_assets.py writes: five categories, three
\* variants, both platforms
ScriptAssets ==
    {Asset(c, v, p) : c \in {"landscape", "portrait", "abstract", "technology",
                              "architecture"},
                      v \in Variants, p \in {"snapdragon", "intel"}}

\* what static/emergency_assets holds at the start: nothing, the script's
\* files, or a few files of three categories
AssetChoices ==
    {{},
     ScriptAssets,
     {Asset("fantasy", 1, "snapdragon"), Asset("fantasy", 1, "intel"),
      Asset("landscape", 0, "snapdragon"), Asset("landscape", 0, "intel"),
      Asset("abstract", 2, "snapdragon"), Asset("abstract", 2, "intel")}}

SimulatorPrompts == {PromptDragon, PromptSpreadsheet}

SimulatorInit ==
    /\ InitDisplay
    /\ emergency = NoRequest
    /\ activator = NewActivator
    /\ monitor_log = {}
    /\ simulator \in {[NoCall EXCEPT !.assets = a] : a \in AssetChoices}

SimulatorNext ==
    \/ \E prompt \in SimulatorPrompts, steps \in {NoSteps} \cup 1..MaxSimSteps,
          has_callback \in BOOLEAN, writable \in BOOLEAN :
            GenerateImage(prompt, steps, has_callback, writable)
    \/ GenerationStep
    \/ GenerateImageReturn

\* One generate_image call on an emergency generator.
SimulatorSpec == SimulatorInit /\ [][SimulatorNext]_vars

\* ----------------------------------------------- EmergencyModeActivator
\* the list activation_triggers, built in the order of the five tests
ActivationTriggers(error_model, error_hardware, memory, disk) ==
    (IF web_only_mode THEN <<"manual override">> ELSE << >>)
    \o (IF error_model THEN <<"model loading failure">> ELSE << >>)
    \o (IF memory THEN <<"memory pressure">> ELSE << >>)
    \o (IF disk THEN <<"disk space shortage">> ELSE << >>)
    \o (IF error_hardware THEN <<"hardware acceleration failure">> ELSE << >>)

\* should_activate_emergency_mode(error, system_health): EMERGENCY_MODE set,
\* an error that names a model or the acceleration hardware, memory or disk
\* above 95 %; the reasons are stored only when there are any
ShouldActivateEmergencyMode(error_model, error_hardware, memory, disk) ==
    LET activation_triggers == ActivationTriggers(error_model, error_hardware, memory, disk)
    IN
    /\ activator' = IF activation_triggers /= << >>
                    THEN [activator EXCEPT !.activation_reasons = activation_triggers,
                                           !.returned = "True"]
                    ELSE [activator EXCEPT !.returned = "False"]
    /\ UNCHANGED <<displayVars, emergency, simulator, monitor_log>>

\* activate_emergency_mode(platform_info, original_generator): the flag and
\* the original generator are stored, then the EmergencyImageGenerator
\* constructor is called, which raises (CreateEmergencyGenerator)
ActivateEmergencyMode(original_generator) ==
    /\ activator' = [activator EXCEPT !.emergency_active = TRUE,
                                      !.original_generator = original_generator,
                                      !.returned = "AttributeError"]
    /\ UNCHANGED <<displayVars, emergency, simulator, monitor_log>>

\* a deactivation without the test of emergency_active
DeactivateEmergencyModeUnguarded ==
    /\ activator' = [activator EXCEPT !.emergency_active = FALSE,
                                      !.activation_reasons = << >>,
                                      !.returned = activator.original_generator]
    /\ UNCHANGED <<displayVars, emergency, simulator, monitor_log>>

\* deactivate_emergency_mode()
DeactivateEmergencyMode ==
    /\ activator' = IF activator.emergency_active
                    THEN [activator EXCEPT !.emergency_active = FALSE,
                                           !.activation_reasons = << >>,
                                           !.returned = activator.original_generator]
                    ELSE [activator EXCEPT !.returned = NoGenerator]
    /\ UNCHANGED <<displayVars, emergency, simulator, monitor_log>>

\* what a caller passes as original_generator
GeneratorChoices == {NoGenerator, "AIImageGenerator"}

ActivatorNext ==
    \/ \E error_model, error_hardware, memory, disk \in BOOLEAN :
          ShouldActivateEmergencyMode(error_model, error_hardware, memory, disk)
    \/ \E original_generator \in GeneratorChoices : ActivateEmergencyMode(original_generator)
    \/ DeactivateEmergencyMode

\* The callers of the global activator, in any order.
ActivatorSpec == Init /\ [][ActivatorNext]_vars

\* ------------------------------------- health checks whose functions raise
\* the strategies in the order setup_recovery_strategies registers them, which
\* is the order check_system_health walks them in
StrategyOrder ==
    <<"model_not_found", "out_of_memory", "concurrent_generation", "disk_space",
      "cors_error", "platform_mismatch", "generation_timeout", "acceleration_failure">>

LogEntry(msg, issue) == [msg |-> msg, issue |-> issue]

\* a loop over the strategies without the try/except around its body: the
\* first exception ends the loop and leaves check_system_health
CheckStrategiesUnguarded(order, detected, detect_raises, recover_raises) ==
    LET bad == {i \in DOMAIN order :
                   \/ order[i] \in detect_raises
                   \/ /\ order[i] \in detected
                      /\ Severity(order[i]) = "critical"
                      /\ order[i] \in recover_raises}
        stop == IF bad = {} THEN Len(order) + 1
                ELSE CHOOSE i \in bad : \A j \in bad : i <= j
        seen == {order[i] : i \in 1..(stop - 1)}
    IN [issues |-> {c \in seen \cap detected : Severity(c) = "critical"},
        warnings |-> {c \in seen \cap detected : Severity(c) = "high"},
        logged |-> {},
        raised |-> bad /= {}]

\* the loop of check_system_health over the strategies in "order", given the
\* conditions whose detection function returns True: each detection and, for
\* a critical detection, its recovery run inside "try: ... except Exception",
\* which logs "Error checking <issue>" and goes on with the next strategy.
\* A critical issue is appended before its recovery is called.
RECURSIVE CheckStrategies(_, _, _, _)
CheckStrategies(order, detected, detect_raises, recover_raises) ==
    IF order = << >>
    THEN [issues |-> {}, warnings |-> {}, logged |-> {}, raised |-> FALSE]
    ELSE LET c == Head(order)
             rest == CheckStrategies(Tail(order), detected, detect_raises, recover_raises)
         IN IF c \in detect_raises
            THEN [rest EXCEPT !.logged = @ \cup {LogEntry("Error checking", c)}]
            ELSE IF c \in detected /\ Severity(c) = "critical"
            THEN [rest EXCEPT !.issues = @ \cup {c},
                              !.logged = IF c \in recover_raises
                                         THEN @ \cup {LogEntry("Error checking", c)}
                                         ELSE @]
            ELSE IF c \in detected /\ Severity(c) = "high"
            THEN [rest EXCEPT !.warnings = @ \cup {c}]
            ELSE rest

\* one round of the monitor thread on a machine where the detection functions
\* in detect_raises and the recovery functions in recover_raises raise: the
\* check, then sleep(30); an exception that comes out of check_system_health
\* is logged as "Health monitor error" and the thread sleeps 60 s instead
HealthMonitorRound(env, detect_raises, recover_raises) ==
    /\ \E detected \in {Detected(env)} :
        \E health \in {CheckStrategies(StrategyOrder, detected, detect_raises,
                                       recover_raises)} :
          IF health.raised
          THEN /\ monitor_log' = monitor_log \cup health.logged
                                    \cup {LogEntry("Health monitor error", "none")}
               /\ health_status' = health_status
          ELSE /\ monitor_log' = monitor_log \cup health.logged
               /\ health_status' = HealthStatusAfter(health)
    /\ UNCHANGED <<emergency, simulator, activator, starting, telemetry, subs,
                   web_only_mode, is_snapdragon, demo_active, current_job_id, jobs,
                   current_step, total_steps, start_time, end_time, ai_generator,
                   workers, tkq, events, next_id, now>>

\* detection functions that raise: the model directory unreadable, psutil
\* failing for the memory or the disk, the job dict changing size while
\* detect_concurrent_generation iterates over it
DetectRaiseChoices ==
    {{"model_not_found"}, {"out_of_memory"}, {"concurrent_generation", "disk_space"}}

RecoverRaiseChoices == {{}, {"model_not_found"}}

\* what the machine reports during these rounds
MonitorEnvChoices ==
    {{}, {"disk_space", "platform_mismatch"}, {"model_not_found", "out_of_memory"}}

\* The command handlers, the workers and the health monitor on a machine
\* where detections fail.
MonitorNext ==
    \/ \E steps \in StepChoices, env \in MonitorEnvChoices : StartGeneration(steps, env)
    \/ \E w \in JobIds, ok \in BOOLEAN : WorkerInit(w, ok)
    \/ \E w \in JobIds : BackendCallback(w)
    \/ \E w \in JobIds : BackendRaise(w)
    \/ \E w \in JobIds : BackendReturn(w)
    \/ \E w \in JobIds : WorkerFinish(w)
    \/ \E w \in JobIds : WorkerExcept(w)
    \/ TkIdle
    \/ \E env \in MonitorEnvChoices, detect_raises \in DetectRaiseChoices,
          recover_raises \in RecoverRaiseChoices :
            HealthMonitorRound(env, detect_raises, recover_raises)

MonitorSpec == Init /\ [][MonitorNext]_vars

\* ------------------------------------------------------------------ claims
IsTerminal(j) == j \in DOMAIN jobs /\ jobs[j].status \in TerminalStatus
IsActive(j) == j \in DOMAIN jobs /\ jobs[j].status = "active"
Running(w) == workers[w].pc \in {"init", "backend", "finish", "except"}

\* C1: single-flight.  At most one job of the history has status 'active', and
\* a history entry is added (a start is accepted) only when no job is active.
C1_SingleFlight ==
    /\ [](Cardinality(ActiveJobs(jobs)) <= 1)
    /\ [][DOMAIN jobs' /= DOMAIN jobs => ActiveJobs(jobs) = {}]_vars

\* C2: terminal states are final.  A job whose status is completed, error or
\* stopped keeps that status in every later step while it is in the history.
C2_TerminalFinal ==
    [][\A j \in DOMAIN jobs :
         (IsTerminal(j) /\ j \in DOMAIN jobs') => jobs'[j].status = jobs[j].status]_vars

\* C3: cooperative cancellation.  A progress callback of worker w, made when the
\* job w was started for is no longer active, changes no job's current_step and
\* emits no event.
C3_LateCallbackDiscarded ==
    [][\A w \in JobIds :
         (BackendCallback(w) /\ ~IsActive(w)) =>
             /\ events' = events
             /\ \A j \in DOMAIN jobs : jobs'[j].current_step = jobs[j].current_step]_vars

\* C4: at most one job-execution unit (worker thread inside run_generation) is
\* running at any instant.
C4_OneWorker == Cardinality({w \in JobIds : Running(w)}) <= 1

ProgressIndexes == {i \in DOMAIN events : events[i].type = "progress"}

\* C5: progress monotonicity.  The current_step stored in a job record never
\* exceeds the record's total_steps, and the current_step of the progress events
\* emitted for one job never decreases.
C5_ProgressMonotone ==
    /\ \A j \in DOMAIN jobs : jobs[j].current_step <= jobs[j].total_steps
    /\ \A a, b \in ProgressIndexes :
         (a < b /\ events[a].job_id = events[b].job_id)
             => events[a].current_step <= events[b].current_step

\* C6: terminal immutability.  Once a job is completed, error or stopped, its
\* current_step, image_url, metrics, error, end_time and elapsed_time are never
\* written again while it is in the history.
C6_TerminalImmutable ==
    [][\A j \in DOMAIN jobs :
         (IsTerminal(j) /\ j \in DOMAIN jobs') =>
             /\ jobs'[j].current_step = jobs[j].current_step
             /\ jobs'[j].image_url = jobs[j].image_url
             /\ jobs'[j].metrics = jobs[j].metrics
             /\ jobs'[j].error = jobs[j].error
             /\ jobs'[j].end_time = jobs[j].end_time
             /\ jobs'[j].elapsed_time = jobs[j].elapsed_time]_vars

\* C7: for a job in a terminal state, get_status(job_id) returns the same view
\* before and after any step that leaves the job's record in the history
\* untouched (in particular a step in which only time passes).
C7_StableView ==
    [][\A j \in DOMAIN jobs :
         (IsTerminal(j) /\ j \in DOMAIN jobs' /\ jobs'[j] = jobs[j])
             => GetStatus(j)' = GetStatus(j)]_vars

\* C8: stop_generation called when nothing is active (no active record, the
\* active flag clear) leaves every job of the history unchanged.
C8_StopIdempotent ==
    [][(StopGeneration /\ ~demo_active /\ ActiveJobs(jobs) = {}) => jobs' = jobs]_vars

Orphaned(j) == IsActive(j) /\ now - jobs[j].start_time > orphan_timeout

\* C9: timeout reaping.  A job that has been active for longer than the orphan
\* timeout eventually leaves 'active' (the claim: by the background sweep, as
\* 'error' with the timeout message), with no external call being made.
C9_OrphanReaped == \A j \in JobIds : Orphaned(j) ~> ~IsActive(j)

\* C10: reaping frees the single-flight slot.  In the state right after the
\* sweep marked a timed-out active job as 'error', no job is active and the
\* active flag is clear, so that the next start_generation is accepted.
C10_ReapFreesSlot ==
    [][(\E j \in DOMAIN jobs : IsActive(j) /\ jobs'[j].status = "error"
                               /\ jobs'[j].error = OrphanErrorMsg)
         => (ActiveJobs(jobs') = {} /\ ~demo_active')]_vars

EventsOf(type, j) == {i \in DOMAIN events : events[i].type = type /\ events[i].job_id = j}

\* job j failed in its backend and every handler of that failure has run
FailedByBackend(j) ==
    /\ jobs[j].status = "error"
    /\ jobs[j].error = BackendErrorMsg
    /\ workers[j].pc \in {"done", "dead"}
    /\ tkq = << >>

\* C12: when the backend of the active job raises, the exception does not
\* escape the worker, the job ends in 'error' with a non-empty message and the
\* flag demo_active is cleared, and once the failure is handled exactly one
\* 'error' event carries the job's id; with a desktop UI and without.
C12_BackendFailure ==
    /\ [](\A j \in DOMAIN jobs : FailedByBackend(j) => Cardinality(EventsOf("error", j)) = 1)
    /\ [][\A w \in JobIds :
            (WorkerExcept(w) /\ workers[w].err = BackendErrorMsg
                /\ demo_active /\ current_job_id = w /\ IsActive(w))
            => /\ workers'[w].pc /= "dead"
               /\ jobs'[w].status = "error"
               /\ jobs'[w].error /= NoError
               /\ (~HasUI => ~demo_active')]_vars

\* C13: when the backend of a job that is still active has returned its
\* image, the image_url is in the job record, the job ends in 'completed' and
\* stays there, and exactly one 'completed' event carries the job's id; with
\* a desktop UI (completion runs on the Tk loop) and without (it runs in the
\* worker).
C13_BackendSuccess ==
    /\ [][\A w \in JobIds :
            (WorkerFinish(w) /\ demo_active /\ current_job_id = w /\ IsActive(w))
            => /\ jobs'[w].image_url /= NoImage
               /\ (~HasUI => /\ jobs'[w].status = "completed"
                             /\ workers'[w].pc = "done"
                             /\ \E i \in DOMAIN events' :
                                    /\ events'[i].type = "completed"
                                    /\ events'[i].job_id = w)]_vars
    /\ [][\A j \in DOMAIN jobs \cap DOMAIN jobs' :
            jobs[j].status = "completed" => jobs'[j].status = "completed"]_vars
    /\ [](\A j \in DOMAIN jobs :
            (jobs[j].status = "completed" /\ workers[j].pc \in {"done", "dead"}
                /\ tkq = << >>)
            => Cardinality(EventsOf("completed", j)) = 1)

\* C14: every accepted job eventually reaches a terminal state when the
\* background threads are scheduled fairly, also when its backend call never
\* returns and nobody sends a stop command.
C14_EventuallyTerminal == \A j \in JobIds : IsActive(j) ~> IsTerminal(j)

\* C15: backend selection.  A job whose real backend cannot be initialised,
\* or that runs with the forced-fallback flag (EMERGENCY_MODE) set, is
\* executed by the emergency generator, which does not fail: its worker never
\* enters run_generation's failure path because of the backend.
C15_BackendSelection ==
    [][\A w \in JobIds :
         /\ ~(workers[w].pc = "init" /\ workers'[w].pc = "except")
         /\ web_only_mode =>
                ~(workers[w].pc = "backend" /\ workers'[w].pc = "except"
                    /\ workers'[w].err = BackendErrorMsg)]_vars

\* the events emitted for job j, in emission order
JobEvents(j) ==
    LET ForJob(e) == e.job_id = j IN SelectSeq(events, ForJob)

\* C16: event sequence of a successful job.  The backend is run with the
\* step count the caller asked for, and a job accepted with steps = n that
\* has completed has emitted job_started, then progress events with
\* current_step 1..n in order, then one completed event with an image.
C16_EventSequence ==
    /\ \A w \in DOMAIN jobs :
          workers[w].pc = "backend" => workers[w].steps = jobs[w].steps
    /\ \A j \in DOMAIN jobs :
          (jobs[j].status = "completed" /\ workers[j].pc = "done" /\ tkq = << >>)
          => LET ev == JobEvents(j)
                 n == jobs[j].steps
             IN /\ Len(ev) = n + 2
                /\ ev[1].type = "job_started"
                /\ \A k \in 1..n : ev[k + 1].type = "progress"
                                    /\ ev[k + 1].current_step = k
                /\ ev[n + 2].type = "completed"
                /\ ev[n + 2].image_url /= NoImage

\* C17: start_generation never raises to its caller, and a start that fails
\* leaves no job marked active: whenever a call has put a new 'active' job
\* into the history it has also run to its end, i.e. started the job's
\* worker thread and returned the id.
C17_StartNeverRaises ==
    [][\A j \in JobIds :
         (j \notin DOMAIN jobs /\ IsActive(j)') => workers'[j].pc = "init"]_vars

\* C18: the writes of start_generation to the current-job slot and to the
\* history are serialized with its check of the active flag: of two calls
\* that run concurrently exactly one is accepted, i.e. a call writes a new
\* job only while no generation is active.
C18_SerializedStarts ==
    [][\A c \in Callers :
         StartCommit(c) => (~demo_active /\ ActiveJobs(jobs) = {})]_vars

\* C19: snapshot on connect.  The connecting client is sent exactly one
\* 'status' event by the connect handler, nobody else is sent anything, and
\* the snapshot shows the job, telemetry and health state of that moment.
C19_SnapshotOnConnect ==
    [][\A s \in Subscribers, env \in EnvChoices :
         Connect(s, env) =>
            /\ \A t \in Subscribers \ {s} : subs'[t] = subs[t]
            /\ Len(subs'[s].inbox) = 1
            /\ subs'[s].inbox[1].type = "status"
            /\ LET view == subs'[s].inbox[1].payload IN
               /\ view.status = (IF demo_active THEN "active" ELSE "idle")
               /\ view.current_job_id = current_job_id
               /\ view.current_step = current_step
               /\ view.total_steps = total_steps
               /\ view.image_url = (IF current_job_id \in DOMAIN jobs
                                    THEN jobs[current_job_id].image_url ELSE NoImage)
               /\ view.completed = (~demo_active /\ end_time /= NoTime)
               /\ view.telemetry = telemetry
               /\ view.health.healthy = ~health_status.has_issues
               /\ view.health.warnings = health_status.has_warnings
               /\ view.health.models_ok = ("model_not_found" \notin env)]_vars

\* a client that connected while a job was running, after its first step
C19_ConnectedDuringJob ==
    \E s \in Subscribers :
        /\ subs[s].connected
        /\ subs[s].inbox[1].type = "status"
        /\ subs[s].inbox[1].payload.status = "active"
        /\ subs[s].inbox[1].payload.current_step > 0

JobEventTypes == {"job_started", "progress", "completed", "error"}

\* the events of job j that client s has received, in arrival order
JobInbox(s, j) ==
    LET ForJob(e) == e.type \in JobEventTypes /\ e.job_id = j
    IN SelectSeq(subs[s].inbox, ForJob)

\* the events of job j that were emitted, in emission order
JobEmitted(j) ==
    LET ForJob(e) == e.type \in JobEventTypes /\ e.job_id = j
    IN SelectSeq(events, ForJob)

\* a can be obtained from b by leaving elements out
RECURSIVE IsSubseq(_, _)
IsSubseq(a, b) ==
    IF a = << >> THEN TRUE
    ELSE IF b = << >> THEN FALSE
    ELSE IF Head(a) = Head(b) THEN IsSubseq(Tail(a), Tail(b))
    ELSE IsSubseq(a, Tail(b))

Buffered(s) == subs[s].inbox

\* C21: backpressure.  Each subscriber has a bounded queue from which the
\* oldest event is dropped when it is full: a connected client never has more
\* than the queue's capacity of events buffered, however slowly it reads, and
\* an emit to a client whose queue is full leaves the queue at its capacity.
C21_BoundedSubscriberQueue ==
    \A s \in Subscribers : Len(Buffered(s)) <= QueueSize

C23_HistoryBound == Cardinality(DOMAIN jobs) <= max_jobs

\* C24 as stated: on every server variant that exposes /health the response
\* carries 503 exactly when the most recent health check recorded a critical
\* issue, and 200 otherwise.
C24_EveryHealthEndpoint ==
    \A env \in EnvChoices :
        /\ (health_check(env).status_code = 503) <=> health_status.has_issues
        /\ (health_check(env).status_code = 200) <=> ~health_status.has_issues
        /\ (emergency_health_check(env).status_code = 503) <=> health_status.has_issues
        /\ (emergency_health_check(env).status_code = 200) <=> ~health_status.has_issues

\* C24, amended: after a health check (a round of the health monitor, or the
\* check start_generation makes when the active flag is clear) the demo
\* client's /health answers 503 exactly when that check found the critical
\* condition, and 200 otherwise, also before the first check; the emergency
\* web server's /health answers 200 always.
C24_HealthEndpoint ==
    /\ [][\A env \in EnvChoices :
            (\/ HealthMonitorTick(env)
             \/ \E steps \in StepChoices : ~demo_active /\ StartGeneration(steps, env))
            => \A now_env \in EnvChoices :
                  health_check(now_env).status_code' =
                      (IF "model_not_found" \in env THEN 503 ELSE 200)]_vars
    /\ [](\A env \in EnvChoices :
            /\ ~health_status.checked => health_check(env).status_code = 200
            /\ emergency_health_check(env).status_code = 200)

\* the last health check found the models missing and /health says 503
C24_Unhealthy ==
    /\ health_status.checked
    /\ health_status.has_issues
    /\ health_check({}).status_code = 503
    /\ emergency_health_check({}).status_code = 200

\* C25: categorization.  The category returned for a prompt has a keyword-hit
\* count against the lowercased prompt that no other of the ten categories
\* exceeds; it is 'abstract' when no keyword matches (the empty prompt
\* included); "a dragon over a castle" yields fantasy and "quarterly revenue
\* spreadsheet" yields abstract.
C25_Categorization ==
    emergency.category /= NoCategory =>
        LET text == str_lower(emergency.prompt) IN
        /\ \E i \in DOMAIN prompt_categories :
              /\ prompt_categories[i].category = emergency.category
              /\ \A j \in DOMAIN prompt_categories : Score(j, text) <= Score(i, text)
        /\ (\A j \in DOMAIN prompt_categories : Score(j, text) = 0)
              => emergency.category = "abstract"
        /\ emergency.prompt = PromptDragon => emergency.category = "fantasy"
        /\ emergency.prompt = PromptSpreadsheet => emergency.category = "abstract"
        /\ emergency.prompt = << >> => emergency.category = "abstract"

\* a prompt that hits two categories, one of them twice, was categorized
C25_TwoCategoriesScored ==
    /\ emergency.category = "fantasy"
    /\ \E i, j \in DOMAIN prompt_categories :
          /\ Score(i, str_lower(emergency.prompt)) = 1
          /\ Score(j, str_lower(emergency.prompt)) = 2

\* C26: fallback never fails.  A caller that turns to the emergency generator
\* gets an image and metrics for every prompt and platform: nothing on the
\* way raises, the construction of the generator included.
C26_FallbackNeverFails == emergency.generator /= "AttributeError"

\* C27: stop_generation called while a job is active sets that job's status
\* to 'stopped', sets its end_time and clears the active flag; from then on
\* the job stays 'stopped' (it is never reported completed or error) and no
\* further progress, completed or error event is emitted for it.
C27_StopEndsJob ==
    /\ [][(StopGeneration /\ demo_active /\ IsActive(current_job_id)) =>
            /\ jobs'[current_job_id].status = "stopped"
            /\ jobs'[current_job_id].end_time /= NoTime
            /\ ~demo_active']_vars
    /\ [][\A j \in DOMAIN jobs :
            (jobs[j].status = "stopped" /\ j \in DOMAIN jobs') =>
                /\ jobs'[j].status = "stopped"
                /\ JobEvents(j)' = JobEvents(j)]_vars

\* C28: a job is moved on only by the worker start_generation created for
\* it: a step of worker w (the backend returning, the code after the backend
\* call, the except block) never changes the status, image_url, metrics or
\* end_time of a job other than w.
C28_OwnWorkerOnly ==
    [][\A w \in JobIds :
         (BackendReturn(w) \/ WorkerFinish(w) \/ WorkerExcept(w)) =>
             \A j \in (DOMAIN jobs \cap DOMAIN jobs') \ {w} :
                 /\ jobs'[j].status = jobs[j].status
                 /\ jobs'[j].image_url = jobs[j].image_url
                 /\ jobs'[j].metrics = jobs[j].metrics
                 /\ jobs'[j].end_time = jobs[j].end_time]_vars

\* C29: health snapshot content.  The record one check_system_health returns
\* lists as issues exactly the detected conditions of critical severity and
\* as warnings exactly the detected conditions of high or medium severity.
C29_SnapshotContent ==
    \A env \in HealthEnvChoices :
        /\ check_system_health(env).issues =
              {c \in Detected(env) : Severity(c) = "critical"}
        /\ check_system_health(env).warnings =
              {c \in Detected(env) : Severity(c) \in {"high", "medium"}}

\* C30: generation-timeout handling.  A round of the health monitor made
\* while the active job has run for longer than the maximum duration stops
\* that job: it leaves the job in status 'error' and the active flag clear.
C30_TimeoutRecovery ==
    [][\A env \in EnvChoices :
         (HealthMonitorTick(env) /\ detect_generation_timeout /\ IsActive(current_job_id)) =>
             /\ jobs'[current_job_id].status = "error"
             /\ ~demo_active']_vars

\* C31: a job's image_url is set only while the job's status is 'completed'
\* and its error detail only while its status is 'error'; no active or
\* stopped job carries an image_url.
C31_ResultOnlyWhenCompleted ==
    \A j \in DOMAIN jobs :
        /\ jobs[j].image_url /= NoImage => jobs[j].status = "completed"
        /\ jobs[j].error /= NoError => jobs[j].status = "error"

\* C32: a job's end_time is None while its status is 'active' and is set for
\* every job in a terminal state, whichever way the state was entered
\* (backend success, backend failure, stop, orphan reaping).
C32_EndTimeSet ==
    \A j \in DOMAIN jobs :
        /\ jobs[j].status = "active" => jobs[j].end_time = NoTime
        /\ jobs[j].status \in TerminalStatus => jobs[j].end_time /= NoTime

\* C33: history eviction never removes a job whose status is 'active'; it
\* removes only jobs in completed, error or stopped, oldest first: a terminal
\* job that started before a removed job is removed with it.
C33_EvictionOrder ==
    [][/\ \A j \in DOMAIN jobs : jobs[j].status = "active" => j \in DOMAIN jobs'
       /\ \A j \in DOMAIN jobs \ DOMAIN jobs' :
            /\ jobs[j].status \in TerminalStatus
            /\ \A i \in DOMAIN jobs :
                 (jobs[i].status \in TerminalStatus
                     /\ jobs[i].start_time < jobs[j].start_time)
                 => i \notin DOMAIN jobs']_vars

\* an eviction has removed failed jobs that were started after a job that is
\* still in the history as 'active', and before one that failed and was kept
C33_ActiveSurvived ==
    \E a, b \in DOMAIN jobs :
        /\ jobs[a].status = "active"
        /\ jobs[b].status = "error"
        /\ \E i \in 1..(next_id - 1) :
              /\ i \notin DOMAIN jobs
              /\ a < i
              /\ i < b

\* C34: fallback asset selection.  The asset select_emergency_image returns
\* for a prompt belongs to the category categorize_prompt computes for that
\* prompt and to the generator's platform, whenever at least one asset of
\* that category and platform exists.
C34_AssetOfCategory ==
    (/\ simulator.pc /= "idle"
     /\ \E a \in simulator.assets :
           /\ a.category = categorize_prompt(simulator.prompt)
           /\ a.platform = platform_type)
    => /\ simulator.image_path.category = categorize_prompt(simulator.prompt)
       /\ simulator.image_path.platform = platform_type

\* the progress_callback calls of the generate_image call, in order
CallbackCalls ==
    LET IsCallback(e) == e.op = "callback" IN SelectSeq(simulator.trace, IsCallback)

\* C35: fallback progress.  generate_image with steps = n invokes the
\* progress callback exactly n times, with step index 1..n in increasing
\* order and total n, and the callback for step i is invoked only after the
\* simulated delay of step i has elapsed (sleep first, then callback).
C35_ProgressAfterDelay ==
    (simulator.pc = "returned" /\ simulator.has_callback) =>
        /\ Len(CallbackCalls) = simulator.steps
        /\ \A i \in DOMAIN CallbackCalls :
              /\ CallbackCalls[i].step = i
              /\ CallbackCalls[i].total = simulator.steps
        /\ \A a, b \in DOMAIN simulator.trace :
              (/\ simulator.trace[a].op = "callback"
               /\ simulator.trace[b].op = "sleep"
               /\ simulator.trace[a].step = simulator.trace[b].step)
              => b < a

\* the event type that reports a job status to the subscribers
StatusEventType(status) ==
    CASE status = "active" -> "job_started"
      [] status = "completed" -> "completed"
      [] status = "error" -> "error"
      [] status = "stopped" -> "stopped"

\* C36: every change of a job's status (to active on start, to completed, to
\* error by backend failure or by the reaper, to stopped by stop_generation)
\* is accompanied by an event published to the subscribers that reports the
\* new state of that job: the step that changes the status emits the event,
\* or queues the handler that emits it on the Tk loop.
C36_TransitionsPublished ==
    [][\A j \in DOMAIN jobs' :
         (j \notin DOMAIN jobs \/ jobs'[j].status /= jobs[j].status) =>
             \/ Len(tkq') > Len(tkq)
             \/ \E i \in (DOMAIN events') \ (DOMAIN events) :
                    /\ events'[i].job_id = j
                    /\ events'[i].type = StatusEventType(jobs'[j].status)]_vars

\* C37: in every reachable state the active flag agrees with the history:
\* demo_active is true if and only if the job identified by current_job_id has
\* status 'active', so that the global status view reports 'active' exactly
\* when a job record is active.
C37_FlagAgreesWithHistory ==
    /\ demo_active <=> IsActive(current_job_id)
    /\ \A env \in EnvChoices :
          (GlobalStatus(env).status = "active") <=> (ActiveJobs(jobs) /= {})

\* C38: health-check isolation.  An exception raised by one condition's
\* detect or recover function during check_system_health does not abort the
\* tick: the failure is logged for that condition, all remaining conditions
\* are still evaluated (the snapshot lists every critical and high condition
\* detected by a function that did not raise), the snapshot is returned and
\* recorded, and the monitor loop never sees a "Health monitor error".
C38_HealthCheckIsolation ==
    /\ LogEntry("Health monitor error", "none") \notin monitor_log
    /\ monitor_log /= {} => health_status.checked
    /\ \A env \in MonitorEnvChoices, detect_raises \in DetectRaiseChoices,
          recover_raises \in RecoverRaiseChoices :
          LET health == CheckStrategies(StrategyOrder, Detected(env), detect_raises,
                                        recover_raises)
          IN /\ ~health.raised
             /\ \A c \in detect_raises : LogEntry("Error checking", c) \in health.logged
             /\ health.issues =
                   {c \in Detected(env) \ detect_raises : Severity(c) = "critical"}
             /\ health.warnings =
                   {c \in Detected(env) \ detect_raises : Severity(c) = "high"}

\* the first strategy's detection raised and a later one was still recorded
C38_RecordedAfterRaise ==
    /\ monitor_log = {LogEntry("Error checking", "model_not_found")}
    /\ health_status.checked
    /\ health_status.has_warnings
    /\ ~health_status.has_issues

\* C39: EmergencyModeActivator.  activate_emergency_mode sets
\* emergency_active; deactivate_emergency_mode called while active clears
\* emergency_active and the activation reasons and returns the original
\* generator recorded at activation; called while not active it returns None
\* and changes no state, so a second consecutive deactivate is a no-op.
C39_ActivatorRoundTrip ==
    [][/\ \A g \in GeneratorChoices :
            ActivateEmergencyMode(g) =>
                /\ activator'.emergency_active
                /\ activator'.original_generator = g
       /\ (DeactivateEmergencyMode /\ activator.emergency_active) =>
                /\ ~activator'.emergency_active
                /\ activator'.activation_reasons = << >>
                /\ activator'.returned = activator.original_generator
       /\ (DeactivateEmergencyMode /\ ~activator.emergency_active) =>
                /\ activator'.returned = NoGenerator
                /\ activator'.emergency_active = activator.emergency_active
                /\ activator'.activation_reasons = activator.activation_reasons
                /\ activator'.original_generator = activator.original_generator]_vars

\* the second of two consecutive deactivations, after an activation that
\* recorded a generator and reasons that were stored since
C39_SecondDeactivate ==
    /\ ~activator.emergency_active
    /\ activator.original_generator = "AIImageGenerator"
    /\ activator.returned = NoGenerator
====
